---- MODULE Spec2Model ----
(***************************************************************************)
(* Model of theforce.calculator.active.ActiveCalculator: the on-the-fly    *)
(* learning calculator.  One record self[w] per worker process holds the   *)
(* calculator's fields and its replica of the sparse model; the workers    *)
(* run the same program and meet at the all-reduce collectives, so every   *)
(* action advances all workers together.  The operators take the           *)
(* configuration (at), the calculators of all workers (S) and the worker   *)
(* (w), so that an action can chain them as calculate does.                *)
(* Real numbers are fixed point with unit One where a threshold is         *)
(* compared (beta, covdiff, alpha), plain integers elsewhere.              *)
(***************************************************************************)
EXTENDS Integers, Sequences, FiniteSets, TLC

\* ---------------------------------------------------------------- bounds
MaxAtoms == 3
MaxCalls == 2
MaxAdds == 3

\* ------------------------------------------------------------- constants
One == 4
Tiny == 0
VolumeSentinel == 0 - 2

VARIABLES
    nw,         \* number of worker processes (1: serial run)
    dist,       \* torch.distributed.is_initialized()
    group,      \* process_group is not None (configurations are split)
    kern,       \* the kernel: [species: the kernels' species, normed: BOOLEAN]
    params,     \* [ediff, fdiff, covdiff, biased, bias]
    system,     \* the simulated system: [numbers, split, pbc]
    atoms,      \* self.atoms: the configuration of the current calculate call
    self,       \* self[w]: the calculator object of worker w
    pc,         \* pc[w]: position of worker w inside calculate
    passes,     \* passes of the while loop of update_inducing in this round
    trace,      \* what the call did: [inits, ran, try_fake, start]
    sparse,     \* a SparseTensor of theforce.util.tensors
    entered     \* the tensors add has appended to it, and whether the last
                \* call raised

vars == <<nw, dist, group, kern, params, system, atoms, self, pc, passes, trace,
          sparse, entered>>

Workers == 1..nw

\* ------------------------------------------------------------ arithmetic
RECURSIVE SumSeq(_)
SumSeq(s) == IF s = <<>> THEN 0 ELSE Head(s) + SumSeq(Tail(s))

RECURSIVE SumOver(_, _)
SumOver(S, f) ==
    IF S = {} THEN 0
    ELSE LET x == CHOOSE y \in S : TRUE IN f[x] + SumOver(S \ {x}, f)

Max(a, b) == IF a >= b THEN a ELSE b

\* floor of the square root of a fixed-point product
Isqrt(n) == CHOOSE r \in 0..(One * One) : r * r <= n /\ (r + 1) * (r + 1) > n

\* a computed tensor holds its values: the function is evaluated once
Tensor(f) == f @@ <<>>

Zeros(n) == [j \in 1..n |-> 0]
InSeq(x, s) == \E n \in 1..Len(s) : s[n] = x

\* ------------------------------------------------------- the configuration
\* at = [numbers: species of each atom, split: the last atom of worker 1,
\*       pbc: the cell has a volume].  Positions and cell are one
\* dimensional: atom a sits at xyz[a] = a, the cell vector is lll = 1.
NumAtoms(at) == Len(at.numbers)
Indices(at, w) ==
    IF ~group THEN 1..NumAtoms(at)
    ELSE IF w = 1 THEN 1..at.split ELSE (at.split + 1)..NumAtoms(at)
xyz(a) == a
lll == 1
Volume == 2
local(at, k) == [number |-> at.numbers[k], atom |-> k]

\* ------------------------------------------------------------- the kernel
\* A kernel of species a sees only environments of species a; every other
\* environment has an empty descriptor and covariance 0 with everything.
KernVal(number) == IF kern.normed THEN 1 ELSE number
Kern(p, q) ==
    IF p = q /\ p \in kern.species THEN KernVal(p) ELSE 0
\* d Kern(loc_i, x) / d xyz[a] and d Kern(loc_i, x) / d lll
DKernXyz(at, i, a, x) ==
    Kern(at.numbers[i], x) * (IF a = i THEN NumAtoms(at) - 1 ELSE 0 - 1)
DKernCell(at, i, x) == IF at.pbc THEN Kern(at.numbers[i], x) ELSE 0

\* ------------------------------------------------- the reference calculator
RefEnergy(numbers) ==
    1 + Cardinality({i \in 1..Len(numbers) : numbers[i] = 1})
RefForces(numbers) == [a \in 1..Len(numbers) |-> numbers[a]]

\* ------------------------------------------------------ the posterior model
\* model = [X: inducing environments, data: labelled configurations,
\*          mu: weights, calls: the operations asked of the model during the
\*          current calculate call].  An inducing environment is
\* [number]; a candidate loc is [number, atom]; a configuration of the data
\* is [numbers, energy, forces, exact].
Called(model, op, atom, added) ==
    Append(model.calls, [op |-> op, atom |-> atom, added |-> added])
MakeMu(X, data) ==
    Tensor([j \in 1..Len(X) |-> SumSeq([d \in 1..Len(data) |-> data[d].energy])])
make_munu(model) ==
    [model EXCEPT !.mu = MakeMu(model.X, model.data),
                  !.calls = Called(model, "make_munu", 0, TRUE)]
set_data(model, data, inducing) ==
    [X |-> inducing, data |-> data, mu |-> MakeMu(inducing, data),
     calls |-> Called(model, "set_data", 0, TRUE)]
Env(loc) == [number |-> loc.number]
add_inducing(model, loc) ==
    [model EXCEPT !.X = Append(model.X, Env(loc)),
                  !.mu = MakeMu(Append(model.X, Env(loc)), model.data),
                  !.calls = Called(model, "add_inducing", loc.atom, TRUE)]
\* added iff the change delta of the predicted energy exceeds ediff
add_1inducing(model, loc, ediff, delta) ==
    IF delta > ediff
    THEN [model EXCEPT !.X = Append(model.X, Env(loc)),
                       !.mu = MakeMu(Append(model.X, Env(loc)), model.data),
                       !.calls = Called(model, "add_1inducing", loc.atom, TRUE)]
    ELSE [model EXCEPT !.calls = Called(model, "add_1inducing", loc.atom, FALSE)]
\* added iff the errors de, df of the model on new exceed ediff or fdiff
add_1atoms(model, new, ediff, fdiff, de, df) ==
    IF de > ediff \/ df > fdiff
    THEN [model EXCEPT !.data = Append(model.data, new),
                       !.mu = MakeMu(model.X, Append(model.data, new)),
                       !.calls = Called(model, "add_1atoms", 0, TRUE)]
    ELSE [model EXCEPT !.calls = Called(model, "add_1atoms", 0, FALSE)]
ndata(model) == Len(model.data)

\* -------------------------------------------------------------- collectives
\* torch.distributed.all_reduce: every worker receives the sum over workers
AllReduce(f) == SumOver(Workers, f)
AllReduceVec(f, n) ==
    Tensor([a \in 1..n |-> SumOver(Workers, [v \in Workers |-> f[v][a]])])
\* self[w].coll: the all_reduce calls worker w has issued in the current
\* calculate call, each named by the tensor it reduces
Issued(s, names) == [s EXCEPT !.coll = s.coll \o names]

\* ------------------------------------------------------ covariance cache
\* self.cov = [x: the species of the inducing environment of each column
\* (the autograd graph of the column), row: the values of the local atoms]
KernMatrix(at, w, X) ==
    [x |-> Tensor([j \in 1..Len(X) |-> X[j].number]),
     row |-> Tensor([i \in Indices(at, w) |->
                 Tensor([j \in 1..Len(X) |-> Kern(at.numbers[i], X[j].number)])])]
CatColumn_Stale(at, cov, loc) == cov
CatColumn(at, cov, loc) ==
    [x |-> Append(cov.x, loc.number),
     row |-> [i \in DOMAIN cov.row |->
                 Append(cov.row[i], Kern(at.numbers[i], loc.number))]]
Columns(cov) == Len(cov.x)

pad_1d_Front(a, b) == Zeros(Len(b) - Len(a)) \o a
pad_1d(a, b) == a \o Zeros(Len(b) - Len(a))

\* (cov @ weights).sum() on one worker
LocalEnergy(cov, weights) ==
    SumOver(DOMAIN cov.row, [i \in DOMAIN cov.row |->
        SumSeq([j \in 1..Columns(cov) |-> cov.row[i][j] * weights[j]])])

\* grad(energy, self.atoms.xyz) and grad(energy, self.atoms.lll) on one
\* worker, for energy = (cov @ weights).sum()
GradXyz(at, cov, weights) ==
    Tensor([a \in 1..NumAtoms(at) |->
        SumOver(DOMAIN cov.row, [i \in DOMAIN cov.row |->
            SumSeq([j \in 1..Columns(cov) |->
                       DKernXyz(at, i, a, cov.x[j]) * weights[j]])])])
GradCell(at, cov, weights) ==
    SumOver(DOMAIN cov.row, [i \in DOMAIN cov.row |->
        SumSeq([j \in 1..Columns(cov) |->
                   DKernCell(at, i, cov.x[j]) * weights[j]])])

\* grads on worker w; weights[v] is the weight vector of worker v
ReducedForces_Local(at, S, w, weights) ==
    Tensor([a \in 1..NumAtoms(at) |-> 0 - GradXyz(at, S[w].cov, weights[w])[a]])
ReducedForces(at, S, w, weights) ==
    LET rgrad == Tensor([v \in Workers |-> GradXyz(at, S[v].cov, weights[v])])
        forces == Tensor([v \in Workers |->
                      Tensor([a \in 1..NumAtoms(at) |-> 0 - rgrad[v][a]])])
    IN  IF group THEN AllReduceVec(forces, NumAtoms(at)) ELSE forces[w]
ReducedCellgrad(at, S, w, weights) ==
    LET cellgrad == Tensor([v \in Workers |-> GradCell(at, S[v].cov, weights[v])])
    IN  IF group THEN AllReduce(cellgrad) ELSE cellgrad[w]
grads_Unsigned(at, S, w, weights) ==
    LET forces == ReducedForces(at, S, w, weights)
        stress1 == 0 - SumSeq([a \in 1..NumAtoms(at) |-> forces[a] * xyz(a)])
        cellgrad == ReducedCellgrad(at, S, w, weights)
        stress2 == cellgrad * lll
        volume == IF at.pbc THEN Volume ELSE 0 - VolumeSentinel
    IN  [forces |-> forces,
         stress |-> [num |-> stress1 + stress2, vol |-> volume]]
grads(at, S, w, weights) ==
    LET forces == ReducedForces(at, S, w, weights)
        stress1 == 0 - SumSeq([a \in 1..NumAtoms(at) |-> forces[a] * xyz(a)])
        cellgrad == ReducedCellgrad(at, S, w, weights)
        stress2 == cellgrad * lll
        volume == IF at.pbc THEN Volume ELSE VolumeSentinel
    IN  [forces |-> forces,
         stress |-> [num |-> stress1 + stress2, vol |-> volume]]

ReducedEnergy(S, w, weights) ==
    LET energy == Tensor([v \in Workers |-> LocalEnergy(S[v].cov, weights[v])])
    IN  IF group THEN AllReduce(energy) ELSE energy[w]
calculate_results(at, S, w) ==
    LET weights == Tensor([v \in Workers |-> S[v].model.mu])
        g == grads(at, S, w, weights)
    IN  [energy |-> ReducedEnergy(S, w, weights),
         forces |-> g.forces,
         stress |-> g.stress]

\* the all_reduce calls of grads (lines 173-174, 181-182) and of
\* calculate_results (lines 145-147)
GradsCollectives == IF group THEN <<"forces", "cellgrad">> ELSE <<>>
ResultsCollectives ==
    (IF group THEN <<"energy">> ELSE <<>>) \o GradsCollectives

\* -------------------------------------------------------------- add_bias
\* mu = (Mi @ cov.t()).sum(dim=1); the model's matrix Mi is the identity here
BiasMu(S, w) ==
    LET mu == Tensor([v \in Workers |->
                  Tensor([j \in 1..Columns(S[v].cov) |->
                      SumOver(DOMAIN S[v].cov.row,
                              [i \in DOMAIN S[v].cov.row |-> S[v].cov.row[i][j]])])])
    IN  IF group THEN AllReduceVec(mu, Columns(S[w].cov)) ELSE mu[w]
BiasPot_Replace(S, w) ==
    Tensor([j \in 1..Len(BiasMu(S, w)) |-> params.bias * BiasMu(S, w)[j]])
BiasPot(S, w) ==
    LET old == IF S[w].bias_pot.none THEN Zeros(Columns(S[w].cov))
               ELSE S[w].bias_pot.v
        mu == BiasMu(S, w)
        padded == pad_1d(old, mu)
    IN  Tensor([j \in 1..Len(mu) |-> padded[j] + params.bias * mu[j]])
\* all_reduce(bias_energy) is issued whether or not the atoms are distributed
BiasEnergy(S) ==
    AllReduce(Tensor([v \in Workers |-> LocalEnergy(S[v].cov, BiasPot(S, v))]))
add_bias(at, S, w) ==
    LET g == grads(at, S, w, Tensor([v \in Workers |-> BiasPot(S, v)]))
        r == S[w].results
    IN  [S[w] EXCEPT
            !.bias_pot = [none |-> FALSE, v |-> BiasPot(S, w)],
            !.results = [energy |-> r.energy + BiasEnergy(S),
                         forces |-> [a \in 1..NumAtoms(at) |->
                                        r.forces[a] + g.forces[a]],
                         stress |-> [num |-> r.stress.num + g.stress.num,
                                     vol |-> g.stress.vol]]]
\* without an initialized process group the unconditional all_reduce raises
AddBiasRaises == ~dist
\* the all_reduce calls of add_bias: line 158 if distributed, line 161 always
BiasReduces == (IF group THEN <<"mu">> ELSE <<>>) \o <<"bias_energy">>
BiasCollectives == BiasReduces \o GradsCollectives

\* ------------------------------------------------------------ get_covloss
NaN == 0 - 1
\* c = ((choli @ cov.T) ** 2).sum(dim=0): 0 for a row of zeros, else the
\* value c[i] the model's factor gives
CovC(cov, c, i) ==
    IF \A j \in 1..Columns(cov) : cov.row[i][j] = 0 THEN 0 ELSE c[i]
Alpha(at, i) == One * Kern(at.numbers[i], at.numbers[i])
Divide(c, alpha) == IF alpha = 0 THEN NaN ELSE (c * One) \div alpha
LocalBeta(at, s, c) ==
    Tensor([i \in DOMAIN s.cov.row |->
        LET cn == IF s.normalized = "True" THEN CovC(s.cov, c, i)
                  ELSE Divide(CovC(s.cov, c, i), Alpha(at, i))
        IN  IF cn = NaN THEN NaN ELSE Isqrt(One * Max(One - cn, 0))])
\* gather: scatter the local values into zeros(natoms), then all_reduce
Gather(at, x) ==
    Tensor([a \in 1..NumAtoms(at) |->
        LET part == Tensor([v \in Workers |->
                        IF a \in Indices(at, v) THEN x[v][a] ELSE 0])
        IN  IF \E v \in Workers : part[v] = NaN THEN NaN ELSE AllReduce(part)])
Beta_Local(at, S, w, c) == LocalBeta(at, S[w], c)
Beta(at, S, w, c) ==
    IF group THEN Gather(at, Tensor([v \in Workers |-> LocalBeta(at, S[v], c)]))
    ELSE LocalBeta(at, S[w], c)
AllClose(x) == \A a \in DOMAIN x : x[a] = One
Normalized(at, S, w) ==
    IF S[w].normalized = "None"
    THEN LET alpha == Tensor([v \in Workers |->
                          Tensor([i \in Indices(at, v) |-> Alpha(at, i)])])
         IN  IF AllClose(IF group THEN Gather(at, alpha) ELSE alpha[w])
             THEN "True" ELSE "False"
    ELSE S[w].normalized
\* torch.cat of the empty list of self-covariances raises
CovlossRaises(at, s, w) == s.normalized # "True" /\ Indices(at, w) = {}
\* the all_reduce calls of get_covloss, each inside gather: of alpha when the
\* normalization is detected (line 254), of beta (line 259)
AlphaCollectives(s) ==
    IF group /\ s.normalized = "None" THEN <<"alpha">> ELSE <<>>
CovlossCollectives(s) ==
    AlphaCollectives(s) \o (IF group THEN <<"beta">> ELSE <<>>)
\* the all_reduce in which a worker waits when another worker has raised
CovlossBlocked(s) ==
    Issued(s, <<Head(CovlossCollectives(s))>>)

\* torch.argsort(beta, descending=True); NaN sorts as the greatest value and
\* the order of equal values is the build's: lowest or highest index first
SortKey(b) == IF b = NaN THEN One + 1 ELSE b
Before(beta, tb, k, l) ==
    \/ SortKey(beta[k]) > SortKey(beta[l])
    \/ SortKey(beta[k]) = SortKey(beta[l]) /\ (IF tb = "low" THEN k <= l ELSE k >= l)
RECURSIVE SortFrom(_, _, _)
SortFrom(beta, tb, S) ==
    IF S = {} THEN <<>>
    ELSE LET k == CHOOSE x \in S : \A l \in S : Before(beta, tb, x, l)
         IN  <<k>> \o SortFrom(beta, tb, S \ {k})
Argsort(beta, tb) == SortFrom(beta, tb, DOMAIN beta)
FirstNotIn_Any(q, added) == q[1]
\* for k in q: if k not in added_indices: break
FirstNotIn(q, added) ==
    LET free == {n \in 1..Len(q) : ~InSeq(q[n], added)}
    IN  IF free = {} THEN q[Len(q)]
        ELSE q[CHOOSE n \in free : \A n2 \in free : n <= n2]

\* --------------------------------------------------- snapshot, _exact, head
\* _exact: energy and forces of the reference calculator
Exact(numbers) ==
    [numbers |-> numbers, energy |-> RefEnergy(numbers),
     forces |-> RefForces(numbers), exact |-> TRUE]
\* the lines _exact writes to the log file
ExactLog(model) ==
    <<"exact energy">> \o (IF ndata(model) > 0 THEN <<"errors">> ELSE <<>>)
snapshot(at, s, fake) ==
    IF fake
    THEN [numbers |-> at.numbers, energy |-> s.results.energy,
          forces |-> s.results.forces, exact |-> FALSE]
    ELSE Exact(at.numbers)
\* head: relabel the last configuration of the data, then recompute mu
HeadData_Kept(data) == data
HeadData(data) == [data EXCEPT ![Len(data)] = Exact(data[Len(data)].numbers)]
head(model) == make_munu([model EXCEPT !.data = HeadData(model.data)])

\* ----------------------------------------------------------- initiate_model
first_of_each_atom_type(numbers) ==
    {a \in 1..Len(numbers) : \A b \in 1..(a - 1) : numbers[b] # numbers[a]}
RECURSIVE SeqOfSet(_)
SeqOfSet(S) ==
    IF S = {} THEN <<>>
    ELSE LET a == CHOOSE x \in S : \A y \in S : x <= y
         IN  <<a>> \o SeqOfSet(S \ {a})
InitiateData_Empty(at, s) == <<>>
InitiateData(at, s) == <<snapshot(at, s, FALSE)>>
InitiateInducing(at) ==
    LET i == SeqOfSet(first_of_each_atom_type(at.numbers))
    IN  [n \in 1..Len(i) |-> Env(local(at, i[n]))]
RECURSIVE InitiateRest_All(_, _, _, _)
InitiateRest_All(at, model, j, delta) ==
    IF j > NumAtoms(at) THEN model
    ELSE InitiateRest_All(at, add_1inducing(model, local(at, j), params.ediff,
                                            delta[j]),
                          j + 1, delta)
\* for j in range(natoms): if j not in i: add_1inducing(locs[j], ediff)
RECURSIVE InitiateRest(_, _, _, _)
InitiateRest(at, model, j, delta) ==
    IF j > NumAtoms(at) THEN model
    ELSE IF j \in first_of_each_atom_type(at.numbers)
         THEN InitiateRest(at, model, j + 1, delta)
         ELSE InitiateRest(at, add_1inducing(model, local(at, j), params.ediff,
                                             delta[j]),
                           j + 1, delta)
initiate_model(at, s, delta) ==
    [s EXCEPT
        !.log = s.log \o ExactLog(s.model),
        !.exact = s.exact + 1,
        !.traj = s.traj + 1,
        !.model = InitiateRest(at, set_data(s.model, InitiateData(at, s),
                                            InitiateInducing(at)), 1, delta)]

\* ---------------------------------------------------------- update_inducing
Ediff(model) == IF Len(model.X) > 1 THEN params.ediff ELSE Tiny
IsClose(b) == b = One
Exhausted(at, s) == Len(s.added_indices) = NumAtoms(at)
KnownSpecies(loc) == loc.number \in kern.species
ByBeta_AtLeast(b) == b # NaN /\ b >= params.covdiff
ByBeta(b) == b # NaN /\ b > params.covdiff
\* lines 263-266
BeginInducing(s) ==
    [s EXCEPT !.added_beta = 0, !.added_diff = 0, !.added_indices = <<>>,
              !.blind = FALSE]
\* lines 295-296: the model did not take the environment: break
Rejected_Continue(s, tried) == [brk |-> FALSE, s |-> [s EXCEPT !.model = tried]]
Rejected(s, tried) == [brk |-> TRUE, s |-> [s EXCEPT !.model = tried]]
\* lines 270-296: one pass of the while loop on worker w; c, tb and delta
\* are what the model and the build answer in this pass.  The result is the
\* calculator after the pass and whether the pass ended with break.
Pass(at, S, w, c, tb, delta) ==
    LET beta == Beta(at, S, w, c)
        k == FirstNotIn(Argsort(beta, tb), S[w].added_indices)
        loc == local(at, k)
        s == [S[w] EXCEPT
                 !.blind = S[w].blind \/ IsClose(beta[k]),
                 !.normalized = Normalized(at, S, w),
                 !.coll = S[w].coll \o CovlossCollectives(S[w]),
                 !.log = IF S[w].normalized = "None"
                         THEN Append(S[w].log, "kernel normalization")
                         ELSE S[w].log]
        tried == add_1inducing(s.model, loc, Ediff(s.model), delta)
        added == Len(tried.X) > Len(s.model.X)
    IN  IF KnownSpecies(loc)
        THEN IF ByBeta(beta[k])
             THEN [brk |-> FALSE,
                   s |-> [s EXCEPT !.model = add_inducing(s.model, loc),
                                   !.added_beta = s.added_beta + 1,
                                   !.cov = CatColumn(at, s.cov, loc),
                                   !.added_indices = Append(s.added_indices, k)]]
             ELSE IF added
                  THEN [brk |-> FALSE,
                        s |-> [s EXCEPT !.model = tried,
                                        !.added_diff = s.added_diff + 1,
                                        !.cov = CatColumn(at, s.cov, loc),
                                        !.added_indices = Append(s.added_indices, k)]]
                  ELSE Rejected(s, tried)
        ELSE [brk |-> FALSE, s |-> s]
\* lines 297-304: the count of the round and its log lines; update, lines
\* 319-320, keeps it in m
EndInducing(s) ==
    LET added == s.added_beta + s.added_diff
    IN  [s EXCEPT
            !.m = added,
            !.n = 0,
            !.log = s.log \o (IF added > 0 THEN <<"added indu">> ELSE <<>>)
                          \o (IF added > 0 /\ s.blind THEN <<"blind">> ELSE <<>>),
            !.added_beta = 0, !.added_diff = 0, !.added_indices = <<>>]

\* ------------------------------------------------------------- update_data
update_data(at, s, try_fake, de, df) ==
    LET new == snapshot(at, s, try_fake)
        grown == add_1atoms(s.model, new, params.ediff, params.fdiff, de, df)
        added == ndata(grown) - ndata(s.model)
        exacts == (IF try_fake THEN 0 ELSE 1)
                  + (IF added > 0 /\ try_fake THEN 1 ELSE 0)
    IN  [s EXCEPT
            !.model = IF added > 0 /\ try_fake THEN head(grown) ELSE grown,
            !.n = added,
            !.exact = s.exact + exacts,
            !.traj = s.traj + exacts,
            !.log = s.log
                    \o (IF try_fake THEN <<>> ELSE ExactLog(s.model))
                    \o (IF added > 0 /\ try_fake THEN ExactLog(grown) ELSE <<>>)
                    \o (IF added > 0 THEN <<"added data">> ELSE <<>>)]

\* line 320: the snapshot is labelled by the model unless the round was blind
TryFake_Always(s) == TRUE
TryFake(s) == ~s.blind
\* lines 128-129: the results are computed again after any growth
Grew(s) == s.n > 0 \/ s.m > 0
Recalculate_Never(at, S, w) == S[w].results
Recalculate(at, S, w) ==
    IF Grew(S[w]) THEN calculate_results(at, S, w) ELSE S[w].results
RecalculateCollectives(s) == IF Grew(s) THEN ResultsCollectives ELSE <<>>

\* --------------------------------------------------------------------- log
\* only rank 0 writes the log file and the trajectory of _exact
Rank0_All(w, s) == s
Rank0(w, s) == IF w = 1 THEN s ELSE [s EXCEPT !.log = <<>>, !.traj = 0]

\* ------------------------------------------------------------ parse_logfile
\* the tokens of a line of the log after the date and the step; "f" is a
\* token float() accepts
Tokens(line) ==
    CASE line = "step" -> <<"f", "f">>
      [] line = "exact energy" -> <<"exact", "energy:", "f">>
      [] line = "errors" -> <<"errors:", "E_ae:", "f", "F_maxe:", "f", "F_mae:", "f">>
      [] line = "size" -> <<"size:", "f", "f">>
      [] line = "kernel normalization" -> <<"kernel", "normalization", "status", "bool">>
      [] line = "added indu" -> <<"added", "indu:", "f", "(f,f)->", "size:", "f", "f", "details:", "list">>
      [] line = "added data" -> <<"added", "data:", "f", "->", "size:", "f", "f">>
      [] line = "blind" -> <<"model", "may", "be", "blind!", "trying", "robust", "algorithm.">>
      [] OTHER -> <<"active", "calculator", "says", "Hello!">>
IsFloat(t, n) == n <= Len(t) /\ t[n] = "f"
\* lines 352-366: the entries one line adds to the four lists
RECURSIVE ParseLines(_, _, _)
ParseLines(lines, step, lists) ==
    IF lines = <<>> THEN lists
    ELSE LET line == Head(lines)
             t == Tokens(line)
         IN  ParseLines(Tail(lines), step,
                 [energies |-> lists.energies \o
                      (IF IsFloat(t, 1) THEN <<<<step, 1>>>> ELSE <<>>),
                  temperatures |-> lists.temperatures \o
                      (IF IsFloat(t, 1) /\ IsFloat(t, 2) THEN <<<<step, 2>>>>
                       ELSE <<>>),
                  exact_energies |-> lists.exact_energies \o
                      (IF line = "exact energy" THEN <<<<step, 3>>>> ELSE <<>>),
                  errors |-> lists.errors \o
                      (IF line = "errors" THEN <<<<step, <<3, 5, 7>>>>>>
                       ELSE <<>>)])
\* line 367: return energies, exact_energies, errors
parse_logfile(lines, step) ==
    LET lists == ParseLines(lines, step,
                     [energies |-> <<>>, temperatures |-> <<>>,
                      exact_energies |-> <<>>, errors |-> <<>>])
    IN  <<lists.energies, lists.exact_energies, lists.errors>>

\* ------------------------------------------------------------------ inputs
\* what the model's factor answers for c of each atom, the change of the
\* predicted energy an environment makes, the errors of the model on a
\* snapshot, and the order argsort gives to equal values
CVals == {0, 3, 5}
Deltas == {0, 5, 20}
Errors == {0, 20}
TieBreaks == {"low", "high"}

\* ------------------------------------------------------------------- runs
\* A run fixes the processes, the kernel, the parameters, the model handed to
\* the constructor and the simulated system.  The catalogue covers every
\* pair of choices for systems of two atoms and adds larger systems.
Serial == [nw |-> 1, dist |-> FALSE, group |-> FALSE]
SerialDist == [nw |-> 1, dist |-> TRUE, group |-> FALSE]
Parallel == [nw |-> 2, dist |-> TRUE, group |-> TRUE]
Soap1 == [species |-> {1}, normed |-> TRUE]
Soap12 == [species |-> {1, 2}, normed |-> FALSE]
Run(layout, split, numbers, pbc, kernel, covdiff, biased, loaded) ==
    [layout |-> layout, split |-> split, numbers |-> numbers, pbc |-> pbc,
     kernel |-> kernel, covdiff |-> covdiff, biased |-> biased,
     loaded |-> loaded]
Catalogue ==
    { Run(Parallel, 0, <<1, 1>>, TRUE, Soap12, 1, FALSE, TRUE),
      Run(Parallel, 0, <<1, 2>>, FALSE, Soap1, One, TRUE, FALSE),
      Run(Parallel, 0, <<2, 1>>, TRUE, Soap12, 1, FALSE, TRUE),
      Run(Parallel, 0, <<2, 2>>, FALSE, Soap1, 1, FALSE, FALSE),
      Run(Parallel, 1, <<1, 1>>, FALSE, Soap12, One, TRUE, FALSE),
      Run(Parallel, 1, <<1, 2>>, FALSE, Soap12, 1, FALSE, FALSE),
      Run(Parallel, 1, <<2, 1>>, FALSE, Soap12, 1, TRUE, TRUE),
      Run(Parallel, 1, <<2, 2>>, FALSE, Soap1, One, TRUE, TRUE),
      Run(Parallel, 1, <<2, 2>>, TRUE, Soap12, 1, FALSE, FALSE),
      Run(Parallel, 2, <<1, 1>>, FALSE, Soap1, One, TRUE, TRUE),
      Run(Parallel, 2, <<1, 2>>, FALSE, Soap12, One, FALSE, TRUE),
      Run(Parallel, 2, <<2, 1>>, TRUE, Soap1, 1, TRUE, FALSE),
      Run(Parallel, 2, <<2, 2>>, FALSE, Soap1, One, FALSE, TRUE),
      Run(Serial, 2, <<1, 1>>, TRUE, Soap1, 1, FALSE, TRUE),
      Run(Serial, 2, <<1, 2>>, TRUE, Soap12, One, TRUE, FALSE),
      Run(Serial, 2, <<2, 1>>, FALSE, Soap1, One, FALSE, TRUE),
      Run(Serial, 2, <<2, 2>>, FALSE, Soap12, 1, TRUE, FALSE),
      Run(SerialDist, 2, <<1, 1>>, FALSE, Soap1, 1, FALSE, FALSE),
      Run(SerialDist, 2, <<1, 1>>, TRUE, Soap12, One, TRUE, TRUE),
      Run(SerialDist, 2, <<1, 2>>, TRUE, Soap1, 1, TRUE, FALSE),
      Run(SerialDist, 2, <<2, 1>>, TRUE, Soap1, One, TRUE, TRUE),
      Run(SerialDist, 2, <<2, 2>>, FALSE, Soap1, One, TRUE, FALSE),
      Run(Parallel, 1, <<1, 1, 2>>, TRUE, Soap12, 1, TRUE, FALSE),
      Run(Parallel, 2, <<1, 2, 1>>, FALSE, Soap1, 1, FALSE, FALSE),
      Run(Serial, 3, <<2, 1, 1>>, TRUE, Soap12, One, FALSE, FALSE),
      Run(SerialDist, 3, <<1, 1, 1>>, FALSE, Soap12, 1, FALSE, FALSE),
      Run(Parallel, 2, <<1, 1, 1, 2>>, TRUE, Soap1, 1, TRUE, FALSE) }
Runs == {r \in Catalogue : Len(r.numbers) <= MaxAtoms}

\* ------------------------------------------------- tensors: cat and split
\* A tensor is the sequence of its entries along the dim that is
\* concatenated: numbers for the index vectors, slices for the values.
RECURSIVE Flatten(_)
Flatten(ts) == IF ts = <<>> THEN <<>> ELSE Head(ts) \o Flatten(Tail(ts))
Last(s) == s[Len(s)]
Front(s) == SubSeq(s, 1, Len(s) - 1)
\* torch.cat of an empty list raises
CatRaises(tensors) == tensors = <<>>
\* lines 10-14: the concatenation and spec = the lengths followed by dim
cat(tensors, dim) ==
    [cat |-> Flatten(tensors),
     spec |-> [n \in 1..Len(tensors) |-> Len(tensors[n])] \o <<dim>>]
\* torch.split(tensor, lengths, dim): consecutive chunks of these lengths
RECURSIVE Chunks(_, _)
Chunks(tensor, lengths) ==
    IF lengths = <<>> THEN <<>>
    ELSE <<SubSeq(tensor, 1, Head(lengths))>>
         \o Chunks(SubSeq(tensor, Head(lengths) + 1, Len(tensor)), Tail(lengths))
split_Short(tensor, spec) == Chunks(tensor, Front(Front(spec)))
\* lines 17-18: split(tensor, spec[:-1], spec[-1])
split(tensor, spec) == Chunks(tensor, Front(spec))

\* ------------------------------------------------------------ SparseTensor
\* lines 32-44: shape has a 0 at the sparse dim; i, j, a are lists
IndexOf(shape, x) == CHOOSE n \in 1..Len(shape) : shape[n] = x /\ \A m \in 1..(n - 1) : shape[m] # x
SparseTensor(shape) ==
    [sdim |-> IndexOf(shape, 0) - 1, form |-> "list",
     i |-> <<>>, j |-> <<>>, a |-> <<>>,
     ispec |-> <<>>, jspec |-> <<>>, aspec |-> <<>>,
     i_max |-> 0, j_max |-> 0]
\* torch.broadcast_tensors of a number i and the list j
Broadcast(i, j) == [n \in 1..Len(j) |-> i]
\* line 59: the indices and the values have the same size along sdim
AddAsserts(i, j, v) == Len(Broadcast(i, j)) = Len(v)
\* lines 78-83
SparseSplit(S) ==
    IF S.form = "tensor"
    THEN [S EXCEPT !.form = "list",
                   !.i = split(S.i, S.ispec),
                   !.j = split(S.j, S.jspec),
                   !.a = split(S.a, S.aspec),
                   !.ispec = <<>>, !.jspec = <<>>, !.aspec = <<>>]
    ELSE S
\* lines 53-68: add of a number i, a list j and a tensor v
add(S, i, j, v) ==
    IF AddAsserts(i, j, v)
    THEN LET L == SparseSplit(S)
         IN  [L EXCEPT !.i = Append(L.i, Broadcast(i, j)),
                       !.j = Append(L.j, j),
                       !.a = Append(L.a, v)]
    ELSE S
\* lines 48-51: add of lists adds their items in turn; an item that fails
\* the assertion ends the call
RECURSIVE AddMany(_, _)
AddMany(S, items) ==
    IF items = <<>> THEN S
    ELSE LET item == Head(items)
         IN  IF AddAsserts(item.i, item.j, item.v)
             THEN AddMany(add(S, item.i, item.j, item.v), Tail(items))
             ELSE S
\* lines 70-76: _cat; torch.cat raises on an empty list and max on an empty
\* tensor, the latter after i, j and a have been assigned
SeqMax(t) == CHOOSE x \in {t[n] : n \in 1..Len(t)} : \A n \in 1..Len(t) : t[n] <= x
Concatenated(S) ==
    IF S.form = "list" /\ ~CatRaises(S.i)
    THEN [S EXCEPT !.form = "tensor",
                   !.i = cat(S.i, 0).cat, !.ispec = cat(S.i, 0).spec,
                   !.j = cat(S.j, 0).cat, !.jspec = cat(S.j, 0).spec,
                   !.a = cat(S.a, S.sdim).cat, !.aspec = cat(S.a, S.sdim).spec]
    ELSE S
SparseCatRaises(S) ==
    \/ S.form = "list" /\ CatRaises(S.i)
    \/ Concatenated(S).i = <<>>
SparseCat(S) ==
    LET C == Concatenated(S)
    IN  IF SparseCatRaises(S) THEN C
        ELSE [C EXCEPT !.i_max = SeqMax(C.i), !.j_max = SeqMax(C.j)]
\* what add has appended: the items in the order of the calls, whether an
\* add has had to split the concatenated form, the last call and whether it
\* raised
NothingEntered ==
    [items |-> <<>>, restored |-> FALSE, op |-> "None", raised |-> FALSE]
Item(i, j, v) == [i |-> i, j |-> j, v |-> v]
RECURSIVE Accepted(_)
Accepted(items) ==
    IF items = <<>> \/ ~AddAsserts(Head(items).i, Head(items).j, Head(items).v)
    THEN <<>>
    ELSE <<Head(items)>> \o Accepted(Tail(items))

\* the inputs of add: i, j = list(range(n)) and the values v
Range(n) == [k \in 1..n |-> k - 1]
Sizes == 0..2
Values == {<<>>, <<5>>, <<6>>, <<5, 6>>}
Items == {Item(i, Range(n), v) : i \in {1, 2}, n \in Sizes, v \in Values}
Shapes == {<<0>>, <<7, 0, 6>>}

\* -------------------------------------------------------------------- Init
FreshModel == [X |-> <<>>, data |-> <<>>, mu |-> <<>>, calls |-> <<>>]
LoadedModel ==
    LET X == <<[number |-> 1], [number |-> 1]>>
        data == <<Exact(<<1, 1>>)>>
    IN  [X |-> X, data |-> data, mu |-> MakeMu(X, data), calls |-> <<>>]
NoResults == [energy |-> 0, forces |-> <<>>, stress |-> [num |-> 0, vol |-> 1]]
NoCov == [x |-> <<>>, row |-> <<>>]
NoAtoms == [numbers |-> <<>>, split |-> 0, pbc |-> FALSE]
\* __init__
Construct(model) ==
    [model |-> model, step |-> 0, skip |-> FALSE, cov |-> NoCov,
     results |-> NoResults, bias_pot |-> [none |-> TRUE, v |-> <<>>],
     normalized |-> "None", blind |-> FALSE,
     added_indices |-> <<>>, added_beta |-> 0, added_diff |-> 0,
     m |-> 0, n |-> 0, log |-> <<>>, exact |-> 0, traj |-> 0, coll |-> <<>>]
NoTrace(models) ==
    [inits |-> 0, ran |-> {}, try_fake |-> "None", computed |-> 0,
     start |-> models]

Init ==
    \E r \in Runs :
        /\ nw = r.layout.nw
        /\ dist = r.layout.dist
        /\ group = r.layout.group
        /\ kern = r.kernel
        /\ params = [ediff |-> 10, fdiff |-> 10, covdiff |-> r.covdiff,
                     biased |-> r.biased, bias |-> 1]
        /\ system = [numbers |-> r.numbers, split |-> r.split, pbc |-> r.pbc]
        /\ atoms = NoAtoms
        /\ self = [w \in 1..r.layout.nw |->
                      Construct(IF r.loaded THEN LoadedModel ELSE FreshModel)]
        /\ pc = [w \in 1..r.layout.nw |-> "idle"]
        /\ passes = 0
        /\ trace = NoTrace([w \in 1..r.layout.nw |->
                      IF r.loaded THEN LoadedModel ELSE FreshModel])
        /\ sparse = SparseTensor(<<0>>)
        /\ entered = NothingEntered

\* ----------------------------------------------------------------- calculate
At(p) == \A w \in Workers : pc[w] = p
Goto(p) == pc' = [w \in Workers |-> p]
\* calculate does not use the SparseTensor
Setup == <<nw, dist, group, kern, params, system, sparse, entered>>
Str(b) == IF b THEN "True" ELSE "False"

NeedsModel_FirstStep(s) == s.step = 0
\* lines 112-114
NeedsModel(s) == s.step = 0 /\ ndata(s.model) = 0
\* line 112 and the operations the model is asked for in this call
Opened(s) ==
    [s EXCEPT !.skip = FALSE, !.m = 0, !.n = 0, !.log = <<>>,
              !.exact = 0, !.traj = 0, !.coll = <<>>,
              !.model = [s.model EXCEPT !.calls = <<>>]]
\* lines 113-117
BuildModel(at, s, delta) ==
    LET built == IF NeedsModel(s)
                 THEN [initiate_model(at, s, delta) EXCEPT !.skip = TRUE]
                 ELSE s
    IN  IF s.step = 0 THEN [built EXCEPT !.log = Append(built.log, "size")]
        ELSE built
\* lines 119-120
WithKernel(at, s, w) == [s EXCEPT !.cov = KernMatrix(at, w, s.model.X)]
\* lines 122-123
WithResults(at, S) ==
    [w \in Workers |->
        Issued([S[w] EXCEPT !.results = calculate_results(at, S, w)],
               ResultsCollectives)]
\* lines 138-141
EndStep(s) == [s EXCEPT !.log = Append(s.log, "step"), !.step = s.step + 1]

\* the answers for atoms that are not offered to the model are not used
Offered(delta) ==
    \A j \in DOMAIN delta :
        j \in first_of_each_atom_type(system.numbers) => delta[j] = 0

\* calculate, first call of a calculator without data: lines 94-123; the
\* selector is skipped
CalculateFirst(delta) ==
    /\ At("idle")
    /\ \A w \in Workers : self[w].step < MaxCalls /\ NeedsModel(self[w])
    /\ Offered(delta)
    /\ LET at == system
           S1 == [w \in Workers |->
                     Rank0(w, WithKernel(at, BuildModel(at, Opened(self[w]), delta), w))]
       IN  /\ atoms' = at
           /\ self' = WithResults(at, S1)
           /\ trace' = [inits |-> trace.inits + 1,
                        ran |-> {"initiate_model"},
                        try_fake |-> "None", computed |-> 1,
                        start |-> [w \in Workers |-> self[w].model]]
    /\ Goto("bias")
    /\ passes' = 0
    /\ UNCHANGED Setup

\* calculate, any other call: lines 94-123 and the start of update_inducing,
\* lines 263-266
Calculate ==
    /\ At("idle")
    /\ \A w \in Workers : self[w].step < MaxCalls /\ ~NeedsModel(self[w])
    /\ LET at == system
           S1 == [w \in Workers |->
                     Rank0(w, WithKernel(at, BuildModel(at, Opened(self[w]), <<>>), w))]
           S2 == WithResults(at, S1)
       IN  /\ atoms' = at
           /\ self' = [w \in Workers |-> BeginInducing(S2[w])]
           /\ trace' = [inits |-> trace.inits,
                        ran |-> {"update_inducing"},
                        try_fake |-> "None", computed |-> 1,
                        start |-> [w \in Workers |-> S1[w].model]]
    /\ Goto("select")
    /\ passes' = 0
    /\ UNCHANGED Setup

AfterInducing_Always(s) == "data"
\* update, lines 319-320: update_data follows only if the round added
AfterInducing(s) == IF s.m > 0 THEN "data" ELSE "bias"

\* the while loop may go on for ever: its passes are counted up to one more
\* than a loop that adds in every pass can make
MaxPasses(at) == NumAtoms(at) + 1

\* line 268: every atom has been added
LoopExit ==
    /\ At("select")
    /\ \A w \in Workers : Exhausted(atoms, self[w])
    /\ self' = [w \in Workers |-> Rank0(w, EndInducing(self[w]))]
    /\ pc' = [w \in Workers |-> AfterInducing(self'[w])]
    /\ passes' = 0
    /\ UNCHANGED <<Setup, atoms, trace>>

\* lines 267-270: the loop goes on and get_covloss does not raise
PassReady ==
    /\ At("select")
    /\ \E w \in Workers : ~Exhausted(atoms, self[w])
    /\ \A w \in Workers : ~CovlossRaises(atoms, self[w], w)
    /\ passes < MaxPasses(atoms)

\* the answers that cannot change the pass are fixed: c of an atom that was
\* added in this round, the order of equal values without equal candidates,
\* delta when the model is not asked
Candidate(c, tb) ==
    FirstNotIn(Argsort(Beta(atoms, self, 1, c), tb), self[1].added_indices)
Used(c) == \A a \in DOMAIN c : InSeq(a, self[1].added_indices) => c[a] = 0
TieBreaksFor(c) ==
    IF Candidate(c, "low") = Candidate(c, "high") THEN {"low"} ELSE TieBreaks
DeltasFor(c, tb) ==
    LET beta == Beta(atoms, self, 1, c)
        k == Candidate(c, tb)
    IN  IF KnownSpecies(local(atoms, k)) /\ ~ByBeta(beta[k]) THEN Deltas
        ELSE {0}

\* lines 270-296: one pass of the while loop, and the end of the round when
\* the pass breaks
LoopPass(c, tb, delta) ==
    /\ PassReady
    /\ LET r == [w \in Workers |-> Pass(atoms, self, w, c, tb, delta)]
       IN  /\ self' = [w \in Workers |->
                          Rank0(w, IF r[w].brk THEN EndInducing(r[w].s)
                                   ELSE r[w].s)]
           /\ pc' = [w \in Workers |->
                        IF r[w].brk THEN AfterInducing(self'[w]) ELSE "select"]
           /\ passes' = IF \A w \in Workers : r[w].brk THEN 0 ELSE passes + 1
    /\ UNCHANGED <<Setup, atoms, trace>>

\* line 250: a worker without atoms raises; the others wait in the all_reduce
CovlossRaise ==
    /\ At("select")
    /\ \E w \in Workers : ~Exhausted(atoms, self[w])
    /\ \E w \in Workers : CovlossRaises(atoms, self[w], w)
    /\ pc' = [w \in Workers |->
                 IF CovlossRaises(atoms, self[w], w) THEN "raised" ELSE "blocked"]
    /\ self' = [w \in Workers |->
                   IF CovlossRaises(atoms, self[w], w) THEN self[w]
                   ELSE CovlossBlocked(self[w])]
    /\ UNCHANGED <<Setup, atoms, passes, trace>>

\* the answers for a snapshot: the error of the forces is asked only when
\* the error of the energy does not decide
Asked(de, df) == de = 0 \/ df = 0

\* update, line 320, and calculate, lines 128-129
UpdateData(de, df) ==
    /\ At("data")
    /\ Asked(de, df)
    /\ LET S1 == [w \in Workers |->
                     Rank0(w, update_data(atoms, self[w], TryFake(self[w]), de, df))]
       IN  self' = [w \in Workers |->
                       Issued([S1[w] EXCEPT !.results = Recalculate(atoms, S1, w)],
                              RecalculateCollectives(S1[w]))]
    /\ trace' = [trace EXCEPT !.ran = trace.ran \cup {"update_data"},
                              !.try_fake = Str(TryFake(self[1])),
                              !.computed = trace.computed +
                                           (IF Grew(self'[1]) THEN 1 ELSE 0)]
    /\ Goto("bias")
    /\ UNCHANGED <<Setup, atoms, passes>>

\* lines 131-141 with a bias
AddBias ==
    /\ At("bias")
    /\ params.biased
    /\ ~AddBiasRaises
    /\ self' = [w \in Workers |->
                   Rank0(w, EndStep(Issued(add_bias(atoms, self, w),
                                           BiasCollectives)))]
    /\ Goto("idle")
    /\ UNCHANGED <<Setup, atoms, passes, trace>>

\* line 161 raises after line 159 has updated the bias potential
AddBiasRaise ==
    /\ At("bias")
    /\ params.biased
    /\ AddBiasRaises
    /\ self' = [w \in Workers |->
                   Issued([self[w] EXCEPT !.bias_pot = [none |-> FALSE,
                                                        v |-> BiasPot(self, w)]],
                          BiasReduces)]
    /\ Goto("raised")
    /\ UNCHANGED <<Setup, atoms, passes, trace>>

\* lines 131-141 without a bias
NoBias ==
    /\ At("bias")
    /\ ~params.biased
    /\ self' = [w \in Workers |-> Rank0(w, EndStep(self[w]))]
    /\ Goto("idle")
    /\ UNCHANGED <<Setup, atoms, passes, trace>>

Next ==
    \/ \E delta \in [1..Len(system.numbers) -> Deltas] : CalculateFirst(delta)
    \/ Calculate
    \/ LoopExit
    \/ \E c \in [1..Len(system.numbers) -> CVals] :
           /\ PassReady
           /\ Used(c)
           /\ \E tb \in TieBreaksFor(c) :
                  \E delta \in DeltasFor(c, tb) : LoopPass(c, tb, delta)
    \/ CovlossRaise
    \/ \E de \in Errors, df \in Errors : UpdateData(de, df)
    \/ AddBias
    \/ AddBiasRaise
    \/ NoBias

Spec == Init /\ [][Next]_vars

\* ------------------------------------------------ runs of a SparseTensor
\* the calculator is not used by the SparseTensor
Calculator == <<nw, dist, group, kern, params, system, atoms, self, pc, passes, trace>>
InitSparse ==
    /\ nw = 1 /\ dist = FALSE /\ group = FALSE
    /\ kern = Soap1
    /\ params = [ediff |-> 10, fdiff |-> 10, covdiff |-> 1,
                 biased |-> FALSE, bias |-> 1]
    /\ system = NoAtoms
    /\ atoms = NoAtoms
    /\ self = [w \in 1..1 |-> Construct(FreshModel)]
    /\ pc = [w \in 1..1 |-> "idle"]
    /\ passes = 0
    /\ trace = NoTrace([w \in 1..1 |-> FreshModel])
    /\ \E shape \in Shapes : sparse = SparseTensor(shape)
    /\ entered = NothingEntered
\* S.add(i, j, v)
Add(item) ==
    /\ Len(entered.items) < MaxAdds
    /\ sparse' = add(sparse, item.i, item.j, item.v)
    /\ entered' = [items |-> entered.items \o Accepted(<<item>>),
                   restored |-> entered.restored
                                \/ (sparse.form = "tensor" /\ Accepted(<<item>>) # <<>>),
                   op |-> "add",
                   raised |-> ~AddAsserts(item.i, item.j, item.v)]
    /\ UNCHANGED Calculator
\* S.add([i, i2], [j, j2], [v, v2])
AddList(items) ==
    /\ Len(entered.items) + Len(items) <= MaxAdds
    /\ sparse' = AddMany(sparse, items)
    /\ entered' = [items |-> entered.items \o Accepted(items),
                   restored |-> entered.restored
                                \/ (sparse.form = "tensor" /\ Accepted(items) # <<>>),
                   op |-> "add",
                   raised |-> Len(Accepted(items)) < Len(items)]
    /\ UNCHANGED Calculator
\* S._cat()
Cat ==
    /\ sparse' = SparseCat(sparse)
    /\ entered' = [entered EXCEPT !.op = "_cat",
                                   !.raised = SparseCatRaises(sparse)]
    /\ UNCHANGED Calculator
NextSparse ==
    \/ \E item \in Items : Add(item)
    \/ /\ Len(entered.items) + 2 <= MaxAdds
       /\ \E item \in Items, item2 \in Items : AddList(<<item, item2>>)
    \/ Cat
SpecSparse == InitSparse /\ [][NextSparse]_vars

\* ------------------------------------------------------------- properties
Done(w) == pc[w] = "idle" /\ self[w].step > 0
Bootstrapped == "initiate_model" \in trace.ran
Selected == "update_inducing" \in trace.ran
Shared == nw = 2 /\ \A w \in Workers : Indices(system, w) # {}

\* C1: the greedy loop of update_inducing terminates after at most natoms
\* successful additions: every pass of a round that does not end the loop
\* has added an atom.
C1_SelectorTerminates ==
    \A w \in Workers :
        pc[w] = "select" => passes <= Len(self[w].added_indices)

\* C2: wherever calculate_results, get_covloss or add_bias is invoked, and at
\* the end of the call, the covariance cache has as many columns as the model
\* has inducing environments.
C2_CacheColumns ==
    \A w \in Workers :
        (pc[w] \in {"select", "data", "bias"} \/ Done(w))
            => Columns(self[w].cov) = Len(self[w].model.X)
C2_Witness ==
    \E w \in Workers :
        /\ pc[w] = "select"
        /\ Len(self[w].added_indices) = 2
        /\ Columns(self[w].cov) = Len(trace.start[w].X) + 2

\* C3: initiate_model runs at most once, and only in the first call; after
\* any completed call the model has data.
C3_BootstrapOnce ==
    \A w \in Workers :
        /\ trace.inits <= 1
        /\ Bootstrapped => self[w].step <= 1 /\ ndata(trace.start[w]) = 0
        /\ Bootstrapped /\ pc[w] # "idle" => self[w].step = 0
        /\ self[w].step > 0 => ndata(self[w].model) >= 1
C3_Witness ==
    /\ trace.inits = 1
    /\ \A w \in Workers : Done(w) /\ self[w].step = 2 /\ Selected

\* C4: the bootstrap leaves one configuration with reference labels in the
\* data; the inducing set is the first atom of each species followed by the
\* other atoms the model accepted, each offered once, in order; the selector
\* is not run.
IsOffer(call) == call.op = "add_1inducing"
IsAccepted(call) == call.op = "add_1inducing" /\ call.added
C4_BootstrapOutcome ==
    \A w \in Workers :
        Bootstrapped /\ pc[w] \in {"bias", "idle"} =>
            LET model == self[w].model
                reps == SeqOfSet(first_of_each_atom_type(atoms.numbers))
                rest == SeqOfSet((1..NumAtoms(atoms)) \
                                 first_of_each_atom_type(atoms.numbers))
                offers == SelectSeq(model.calls, IsOffer)
                accepted == SelectSeq(model.calls, IsAccepted)
            IN  /\ model.data = <<Exact(atoms.numbers)>>
                /\ Len(model.calls) = 1 + Len(rest)
                /\ model.calls[1].op = "set_data"
                /\ [n \in 1..Len(offers) |-> offers[n].atom] = rest
                /\ model.X = [n \in 1..Len(reps) |->
                                 [number |-> atoms.numbers[reps[n]]]]
                             \o [n \in 1..Len(accepted) |->
                                    [number |-> atoms.numbers[accepted[n].atom]]]
                /\ \A n, n2 \in 1..Len(reps) :
                       n # n2 => model.X[n].number # model.X[n2].number
                /\ {atoms.numbers[a] : a \in 1..NumAtoms(atoms)}
                       = {model.X[n].number : n \in 1..Len(reps)}
                /\ trace.ran = {"initiate_model"}
                /\ trace.computed = 1
C4_Witness ==
    /\ Bootstrapped
    /\ \A w \in Workers :
           /\ Done(w)
           /\ \E n \in 1..Len(self[w].model.calls) :
                  IsAccepted(self[w].model.calls[n])
           /\ \E n \in 1..Len(self[w].model.calls) :
                  IsOffer(self[w].model.calls[n])
                      /\ ~self[w].model.calls[n].added

\* C5: at the end of every call every configuration of the data carries the
\* reference calculator's energy and forces and the weights are those of
\* these labels; the snapshot of update_data is labelled by the reference
\* calculator exactly when the round was blind.
C5_TrueLabels ==
    \A w \in Workers :
        /\ Done(w) =>
              /\ \A d \in 1..ndata(self[w].model) :
                     self[w].model.data[d]
                         = Exact(self[w].model.data[d].numbers)
              /\ self[w].model.mu
                     = MakeMu(self[w].model.X, self[w].model.data)
        /\ "update_data" \in trace.ran =>
              trace.try_fake = Str(~self[w].blind)
C5_Witness ==
    \A w \in Workers :
        /\ Done(w)
        /\ trace.try_fake = "True"
        /\ self[w].n = 1
        /\ self[w].results.energy
               # RefEnergy(self[w].model.data[ndata(self[w].model)].numbers)

\* C6: a round of the selector that adds no inducing environment is not
\* followed by update_data: the call adds no configuration and leaves the
\* model as it was.
IsData(call) == call.op = "add_1atoms"
C6_NoGrowthNoData ==
    \A w \in Workers :
        Selected /\ pc[w] \in {"bias", "idle"} /\ self[w].m = 0 =>
            /\ "update_data" \notin trace.ran
            /\ self[w].n = 0
            /\ SelectSeq(self[w].model.calls, IsData) = <<>>
            /\ self[w].model.X = trace.start[w].X
            /\ self[w].model.data = trace.start[w].data
            /\ self[w].model.mu = trace.start[w].mu
C6_Witness ==
    \A w \in Workers :
        /\ Done(w)
        /\ Selected
        /\ self[w].m = 0
        /\ \E n \in 1..Len(self[w].model.calls) :
               IsOffer(self[w].model.calls[n])

\* C7: the energy, forces and stress every worker holds after
\* calculate_results are those of one worker that holds all atoms.
WholeCov(at, X) ==
    [x |-> [j \in 1..Len(X) |-> X[j].number],
     row |-> [i \in 1..NumAtoms(at) |->
                 [j \in 1..Len(X) |-> Kern(at.numbers[i], X[j].number)]]]
C7_ReductionEquivalence ==
    \A w \in Workers :
        pc[w] = "bias" =>
            LET cov == WholeCov(atoms, self[w].model.X)
                mu == self[w].model.mu
                forces == [a \in 1..NumAtoms(atoms) |->
                              0 - GradXyz(atoms, cov, mu)[a]]
            IN  /\ self[w].results.energy = LocalEnergy(cov, mu)
                /\ self[w].results.forces = forces
                /\ self[w].results.stress.num
                       = GradCell(atoms, cov, mu) * lll
                         - SumSeq([a \in 1..NumAtoms(atoms) |->
                                      forces[a] * xyz(a)])
                /\ self[w].results.stress.vol
                       = (IF atoms.pbc THEN Volume ELSE VolumeSentinel)
C7_Witness ==
    /\ Shared
    /\ \A w \in Workers :
           /\ pc[w] = "bias"
           /\ self[w].results.energy > 0
           /\ \E a \in 1..NumAtoms(atoms) : self[w].results.forces[a] # 0
           /\ self[w].results.stress.num # 0
           /\ LocalEnergy(self[w].cov, self[w].model.mu) > 0

\* C8: the workers hold the same model and have taken the same decisions of
\* the selector in every state.
C8_ReplicaConsistency ==
    \A v, w \in Workers :
        /\ self[v].model = self[w].model
        /\ self[v].added_indices = self[w].added_indices
        /\ self[v].added_beta = self[w].added_beta
        /\ self[v].added_diff = self[w].added_diff
        /\ self[v].normalized = self[w].normalized
        /\ self[v].blind = self[w].blind
        /\ self[v].m = self[w].m /\ self[v].n = self[w].n
        /\ pc[v] \in {"raised", "blocked"} \/ pc[v] = pc[w]
C8_Witness ==
    /\ Shared
    /\ \A w \in Workers :
           /\ pc[w] = "select"
           /\ self[w].added_beta = 1
           /\ self[w].added_diff = 1
           /\ self[w].normalized = "False"

\* C9: at the end of every call the energy of the results is the sum of
\* cache times weights over all atoms and inducing environments, with the
\* final cache and weights, plus the energy of the bias if there is one; it
\* has been computed once if the call added nothing and again otherwise.
C9_FinalResults ==
    \A w \in Workers :
        Done(w) =>
            LET energy == [v \in Workers |->
                              LocalEnergy(self[v].cov, self[w].model.mu)]
                bias == [v \in Workers |->
                            LocalEnergy(self[v].cov, self[w].bias_pot.v)]
            IN  /\ self[w].results.energy
                       = (IF group THEN SumOver(Workers, energy) ELSE energy[w])
                         + (IF params.biased THEN SumOver(Workers, bias) ELSE 0)
                /\ trace.computed
                       = (IF self[w].m > 0 \/ self[w].n > 0 THEN 2 ELSE 1)
C9_Witness ==
    /\ params.biased
    /\ \A w \in Workers :
           /\ Done(w)
           /\ self[w].m > 0
           /\ self[w].n = 0
           /\ trace.computed = 2
           /\ self[w].results.energy > 0

\* C10: no step removes an inducing environment or a configuration of the
\* data.
C10_Monotone ==
    [][\A w \in Workers :
           /\ Len(self'[w].model.X) >= Len(self[w].model.X)
           /\ ndata(self'[w].model) >= ndata(self[w].model)]_vars
C10_Witness ==
    \A w \in Workers :
        /\ Done(w)
        /\ self[w].step = 2
        /\ Len(self[w].model.X) > Len(trace.start[w].X)
        /\ ndata(self[w].model) > ndata(trace.start[w])
        /\ Len(trace.start[w].X) > 0

\* C11: within a round no atom is added twice, no atom is supplied to
\* add_inducing or add_1inducing more than once, and at most natoms inducing
\* environments are added.
IsAdd(call) == call.op \in {"add_inducing", "add_1inducing"}
C11_NoAtomTwice ==
    \A w \in Workers :
        Selected =>
            /\ \A n, n2 \in 1..Len(self[w].added_indices) :
                   n # n2 => self[w].added_indices[n] # self[w].added_indices[n2]
            /\ \A n, n2 \in 1..Len(self[w].model.calls) :
                   (/\ n # n2
                    /\ IsAdd(self[w].model.calls[n])
                    /\ IsAdd(self[w].model.calls[n2]))
                       => self[w].model.calls[n].atom # self[w].model.calls[n2].atom
            /\ self[w].added_beta + self[w].added_diff <= NumAtoms(atoms)
            /\ self[w].m <= NumAtoms(atoms)
            /\ Len(self[w].model.X) - Len(trace.start[w].X) <= NumAtoms(atoms)
C11_Witness ==
    \A w \in Workers :
        /\ pc[w] = "select"
        /\ NumAtoms(atoms) = 3
        /\ Len(self[w].added_indices) = 3
        /\ Len(SelectSeq(self[w].model.calls, IsAdd)) = 3

\* C12: with covdiff = 1 no inducing environment is added through the
\* covariance loss: added_beta stays 0 and the selector never calls
\* add_inducing, so every addition of a round is one add_1inducing accepted.
IsBetaAdd(call) == call.op = "add_inducing"
C12_CovdiffOne ==
    \A w \in Workers :
        params.covdiff = One /\ Selected =>
            /\ self[w].added_beta = 0
            /\ SelectSeq(self[w].model.calls, IsBetaAdd) = <<>>
            /\ Len(self[w].model.X) - Len(trace.start[w].X)
                   = Len(SelectSeq(self[w].model.calls, IsAccepted))
C12_Witness ==
    /\ params.covdiff = One
    /\ \A w \in Workers :
           /\ pc[w] = "select"
           /\ self[w].blind
           /\ self[w].added_diff = 2

\* C13: every value get_covloss returns lies between 0 and 1, whatever the
\* model's factor gives, for a kernel found normalized and for one that is
\* not.
C13_BetaRange ==
    PassReady =>
        \A c \in [1..NumAtoms(atoms) -> CVals] :
            \A w \in Workers :
                \A a \in DOMAIN Beta(atoms, self, w, c) :
                    Beta(atoms, self, w, c)[a] \in 0..One

\* C14: when a call with a bias leaves the model as the previous call left
\* it, its bias energy is that of the previous call plus the energy of
\* bias * mu of this visit, so its magnitude does not decrease.
Abs(x) == IF x < 0 THEN 0 - x ELSE x
BiasEnergyOf(S, w) ==
    SumOver(Workers, [v \in Workers |-> LocalEnergy(S[v].cov, S[w].bias_pot.v)])
VisitEnergy(at, X) ==
    LET cov == WholeCov(at, X)
    IN  LocalEnergy(cov, [j \in 1..Len(X) |->
                             params.bias * SumSeq([i \in 1..NumAtoms(at) |->
                                                      cov.row[i][j]])])
C14_BiasAccumulates ==
    [][\A w \in Workers :
           (/\ pc[w] = "bias" /\ pc'[w] = "idle"
            /\ params.biased
            /\ ~self[w].bias_pot.none
            /\ self[w].model.X = trace.start[w].X
            /\ self[w].model.data = trace.start[w].data)
               => /\ Abs(BiasEnergyOf(self', w)) >= Abs(BiasEnergyOf(self, w))
                  /\ BiasEnergyOf(self', w)
                         = BiasEnergyOf(self, w)
                           + VisitEnergy(atoms, self[w].model.X)]_vars
C14_Witness ==
    /\ params.biased
    /\ \A w \in Workers :
           /\ Done(w)
           /\ self[w].step = 2
           /\ Selected
           /\ self[w].model.X = trace.start[w].X
           /\ BiasEnergyOf(self, w) = 2 * VisitEnergy(atoms, self[w].model.X)
           /\ VisitEnergy(atoms, self[w].model.X) > 0

\* C15: whatever the number of workers, each invocation of the reference
\* calculator appends one frame to the trajectory, written by rank 0, and
\* every line of the log is written by rank 0: the other workers write
\* nothing.
IsExactLine(line) == line = "exact energy"
C15_RankZeroOnly ==
    \A w \in Workers :
        /\ self[w].exact = self[1].traj
        /\ SumOver(Workers, [v \in Workers |-> self[v].traj]) = self[w].exact
        /\ Len(SelectSeq(self[1].log, IsExactLine)) = self[w].exact
        /\ w # 1 => self[w].traj = 0 /\ self[w].log = <<>>
C15_Witness ==
    /\ nw = 2
    /\ Done(2)
    /\ self[2].exact = 1
    /\ self[2].traj = 0
    /\ self[1].traj = 1
    /\ Len(self[1].log) >= 3

\* C16: parse_logfile returns four series for the log of a call: a
\* (step, energy) and a (step, temperature) pair for each step line, a
\* (step, exact energy) pair for each exact energy line and a (step, errors)
\* entry for each errors line, and nothing for any other line.
IsStepLine(line) == line = "step"
IsErrorsLine(line) == line = "errors"
C16_ParserSeries ==
    Done(1) =>
        LET log == self[1].log
            step == self[1].step - 1
            series == parse_logfile(log, step)
            steps == Len(SelectSeq(log, IsStepLine))
        IN  /\ Len(series) = 4
            /\ series[1] = [n \in 1..steps |-> <<step, 1>>]
            /\ series[2] = [n \in 1..steps |-> <<step, 2>>]
            /\ series[3] = [n \in 1..Len(SelectSeq(log, IsExactLine)) |->
                               <<step, 3>>]
            /\ series[4] = [n \in 1..Len(SelectSeq(log, IsErrorsLine)) |->
                               <<step, <<3, 5, 7>>>>]

\* C17: a step changes the accumulator bias_pot only in add_bias; its new
\* value has one entry for each inducing environment (each column of the
\* cache) and is the old value, padded with zeros at the end, plus bias * mu
\* of this step: old entries keep their index and nothing is reset or cut.
ColumnSum(at, X, j) ==
    SumSeq([i \in 1..NumAtoms(at) |-> WholeCov(at, X).row[i][j]])
C17_BiasAccumulator ==
    [][\A w \in Workers :
           \/ self'[w].bias_pot = self[w].bias_pot
           \/ /\ pc[w] = "bias"
              /\ params.biased
              /\ LET old == IF self[w].bias_pot.none THEN <<>>
                            ELSE self[w].bias_pot.v
                     new == self'[w].bias_pot.v
                 IN  /\ ~self'[w].bias_pot.none
                     /\ Len(new) = Len(self'[w].model.X)
                     /\ Len(new) = Columns(self'[w].cov)
                     /\ Len(old) <= Len(new)
                     /\ \A j \in 1..Len(new) :
                            new[j] = (IF j <= Len(old) THEN old[j] ELSE 0)
                                     + params.bias
                                       * ColumnSum(atoms, self[w].model.X, j)]_vars
C17_Witness ==
    /\ params.biased
    /\ \A w \in Workers :
           /\ Done(w)
           /\ self[w].step = 2
           /\ Len(trace.start[w].X) > 0
           /\ Len(self[w].bias_pot.v) > Len(trace.start[w].X)
           /\ self[w].bias_pot.v[1] > self[w].bias_pot.v[Len(self[w].bias_pot.v)]
           /\ self[w].bias_pot.v[Len(self[w].bias_pot.v)] > 0

\* C18: once add_1inducing has rejected a candidate in a round the loop is
\* over: no candidate is supplied to the model after it, and the additions
\* of the round are those made before it.
IsRejected(call) == call.op = "add_1inducing" /\ ~call.added
IsAdded(call) == IsAdd(call) /\ call.added
C18_EarlyExit ==
    \A w \in Workers :
        Selected =>
            \A n \in 1..Len(self[w].model.calls) :
                IsRejected(self[w].model.calls[n]) =>
                    /\ pc[w] # "select"
                    /\ \A n2 \in (n + 1)..Len(self[w].model.calls) :
                           ~IsAdd(self[w].model.calls[n2])
                    /\ self[w].m
                           = Len(SelectSeq(SubSeq(self[w].model.calls, 1, n),
                                           IsAdded))
                    /\ Len(self[w].model.X)
                           = Len(trace.start[w].X) + self[w].m
C18_Witness ==
    \A w \in Workers :
        /\ Done(w)
        /\ Selected
        /\ self[w].m = 2
        /\ NumAtoms(atoms) = 3
        /\ \E n \in 1..Len(self[w].model.calls) :
               IsRejected(self[w].model.calls[n])

\* C19: for a configuration without a volume the results are computed all
\* the same: the forces of every atom, and the stress as the virial of the
\* forces divided by the sentinel -2; the call goes on to its end.
C19_NoVolume ==
    \A w \in Workers :
        (/\ ~atoms.pbc
         /\ NumAtoms(atoms) > 0
         /\ pc[w] \in {"select", "data", "bias", "idle"}) =>
            /\ DOMAIN self[w].results.forces = 1..NumAtoms(atoms)
            /\ self[w].results.stress.vol = 0 - 2
            /\ self[w].results.stress.num
                   = 0 - SumSeq([a \in 1..NumAtoms(atoms) |->
                                    self[w].results.forces[a] * xyz(a)])
C19_Witness ==
    /\ ~atoms.pbc
    /\ \A w \in Workers :
           /\ Done(w)
           /\ self[w].step = 2
           /\ self[w].results.stress.num # 0
           /\ self[w].results.stress.vol = VolumeSentinel

\* C20: a call invokes the reference calculator at most once: once in the
\* bootstrap, and in any other call once exactly when the round added an
\* inducing environment and either was blind or had its snapshot accepted;
\* an added data line of the log comes after an exact energy line and an
\* added indu line of the same call.
C20_ReferenceCalls ==
    \A w \in Workers :
        /\ self[w].exact <= 1
        /\ pc[w] \in {"bias", "idle"} /\ Bootstrapped => self[w].exact = 1
        /\ pc[w] \in {"bias", "idle"} /\ Selected =>
               (self[w].exact = 1
                    <=> self[w].m > 0 /\ (self[w].blind \/ self[w].n > 0))
        /\ \A n \in 1..Len(self[w].log) :
               self[w].log[n] = "added data" =>
                   /\ \E i \in 1..(n - 1) : self[w].log[i] = "exact energy"
                   /\ \E i \in 1..(n - 1) : self[w].log[i] = "added indu"
C20_Witness ==
    \A w \in Workers :
        /\ Done(w)
        /\ Selected
        /\ ~self[w].blind
        /\ self[w].n = 1
        /\ self[w].exact = 1
        /\ \E n \in 1..Len(self[1].log) : self[1].log[n] = "added data"

\* C21: in a run that is not distributed (no process group, the
\* configuration is not split) a calculate call, with or without a bias,
\* issues no all_reduce and is not ended by one that raises.
C21_NoCollective ==
    \A w \in Workers :
        ~group => self[w].coll = <<>> /\ pc[w] # "raised"

\* C22: in a distributed run all workers have issued the same sequence of
\* all_reduce calls, however many atoms each of them owns, and no worker
\* waits in a collective that another worker never reaches.
C22_CollectiveMatching ==
    group =>
        \A v \in Workers, w \in Workers :
            self[v].coll = self[w].coll /\ pc[w] # "blocked"

\* C23: whatever adds and _cat calls have been made, a _cat of a
\* SparseTensor to which entries were added returns with the concatenated
\* form; that form holds, in i, in j and along the sparse dim of a, exactly
\* the entries that were added, in the order they were added, so their
\* lengths are the total number of entries; and the list form, also when an
\* add has restored it from the concatenated form, holds the tensors that
\* were added, none lost and none out of order.
RECURSIVE TotalEntries(_)
TotalEntries(items) ==
    IF items = <<>> THEN 0 ELSE Len(Head(items).v) + TotalEntries(Tail(items))
EnteredI == [n \in 1..Len(entered.items) |->
                [k \in 1..Len(entered.items[n].j) |-> entered.items[n].i]]
EnteredJ == [n \in 1..Len(entered.items) |-> entered.items[n].j]
EnteredA == [n \in 1..Len(entered.items) |-> entered.items[n].v]
C23_EntryConservation ==
    /\ entered.op = "_cat" /\ TotalEntries(entered.items) > 0 =>
           sparse.form = "tensor" /\ ~entered.raised
    /\ sparse.form = "tensor" =>
           /\ Len(sparse.i) = TotalEntries(entered.items)
           /\ Len(sparse.j) = TotalEntries(entered.items)
           /\ Len(sparse.a) = TotalEntries(entered.items)
           /\ sparse.i = Flatten(EnteredI)
           /\ sparse.j = Flatten(EnteredJ)
           /\ sparse.a = Flatten(EnteredA)
    /\ sparse.form = "list" =>
           /\ sparse.i = EnteredI
           /\ sparse.j = EnteredJ
           /\ sparse.a = EnteredA
C23_Witness ==
    /\ sparse.form = "tensor"
    /\ entered.restored
    /\ entered.op = "_cat"
    /\ ~entered.raised
    /\ Len(entered.items) = 3
    /\ TotalEntries(entered.items) >= 4
    /\ sparse.sdim = 1
====
